---------------------------- MODULE Spec2Model ----------------------------
(***************************************************************************)
(* Model of basis_of(T, V=None, verbosity=0) from src/self_function.py.    *)
(*                                                                         *)
(* A call is a frame that moves through the function's four stages:        *)
(* input validation, the dimension (cardinality) check, the linear         *)
(* independence check and the spanning check.  Every print statement and   *)
(* every call into the matrix provider is appended, in program order, to   *)
(* the frame's trace.  Matrices hold exact integers; the provider's rank   *)
(* is computed by row reduction, as the provider computes it.              *)
(***************************************************************************)
EXTENDS Integers, Sequences, FiniteSets, TLC

VARIABLES args, frame

vars == <<args, frame>>

----------------------------------------------------------------------------
(* Bounds of the explored inputs *)

MaxRows == 3

MaxCols == 3

MaxCells == 6

MaxVerbosity == 2

Entries == {0, 1}

----------------------------------------------------------------------------
(* Values: Matrix objects, None, and objects that are not a Matrix *)

None == [kind |-> "None", rows |-> 0, cols |-> 0, a |-> <<>>]

NotAMatrix == [kind |-> "list", rows |-> 0, cols |-> 0, a |-> <<>>]

Matrix(r, c, a) == [kind |-> "Matrix", rows |-> r, cols |-> c, a |-> a]

isinstance_Matrix(x) == x.kind = "Matrix"

MatricesOf(r, c) == {Matrix(r, c, a) : a \in [1..r -> [1..c -> Entries]]}

Shapes == {s \in (1..MaxRows) \X (0..MaxCols) : s[1] * s[2] <= MaxCells}

Matrices == UNION {MatricesOf(s[1], s[2]) : s \in Shapes}

Verbosities == 0..MaxVerbosity

----------------------------------------------------------------------------
(* The matrix provider *)

Min(S) == CHOOSE x \in S : \A y \in S : x <= y

\* Matrix.eye(n)
Eye(n) == Matrix(n, n, [i \in 1..n |-> [j \in 1..n |-> IF i = j THEN 1 ELSE 0]])

\* A.row_join(B): horizontal concatenation [A | B]
RowJoin(A, B) ==
    Matrix(A.rows, A.cols + B.cols, [i \in 1..A.rows |-> A.a[i] \o B.a[i]])

\* Row reduction from pivot position (r, c): the number of pivots found.
\* Elimination is fraction free, which leaves the pivots of the exact
\* rational reduction unchanged.
RECURSIVE RowReduce(_, _, _, _, _)
RowReduce(a, rows, cols, r, c) ==
    IF r > rows \/ c > cols THEN 0
    ELSE LET cand == {i \in r..rows : a[i][c] # 0}
         IN  IF cand = {} THEN RowReduce(a, rows, cols, r, c + 1)
             ELSE LET p  == Min(cand)
                      sw == [a EXCEPT ![r] = a[p], ![p] = a[r]]
                      el == [i \in 1..rows |->
                               IF i > r
                               THEN [j \in 1..cols |->
                                       sw[r][c] * sw[i][j] - sw[i][c] * sw[r][j]]
                               ELSE sw[i]]
                  IN  1 + RowReduce(el, rows, cols, r + 1, c + 1)

\* Rank with a reduction that never exchanges rows: a column whose entry in
\* the current row is 0 is taken to hold no pivot.
RECURSIVE RowReduce_no_exchange(_, _, _, _, _)
RowReduce_no_exchange(a, rows, cols, r, c) ==
    IF r > rows \/ c > cols THEN 0
    ELSE IF a[r][c] = 0 THEN RowReduce_no_exchange(a, rows, cols, r, c + 1)
    ELSE LET el == [i \in 1..rows |->
                      IF i > r
                      THEN [j \in 1..cols |->
                              a[r][c] * a[i][j] - a[i][c] * a[r][j]]
                      ELSE a[i]]
         IN  1 + RowReduce_no_exchange(el, rows, cols, r + 1, c + 1)

Rank_no_exchange(M) == RowReduce_no_exchange(M.a, M.rows, M.cols, 1, 1)

\* Rank with a reduction that eliminates as if every pivot were 1.
RECURSIVE RowReduce_unit_pivot(_, _, _, _, _)
RowReduce_unit_pivot(a, rows, cols, r, c) ==
    IF r > rows \/ c > cols THEN 0
    ELSE LET cand == {i \in r..rows : a[i][c] # 0}
         IN  IF cand = {} THEN RowReduce_unit_pivot(a, rows, cols, r, c + 1)
             ELSE LET p  == Min(cand)
                      sw == [a EXCEPT ![r] = a[p], ![p] = a[r]]
                      el == [i \in 1..rows |->
                               IF i > r
                               THEN [j \in 1..cols |->
                                       sw[i][j] - sw[i][c] * sw[r][j]]
                               ELSE sw[i]]
                  IN  1 + RowReduce_unit_pivot(el, rows, cols, r + 1, c + 1)

Rank_unit_pivot(M) == RowReduce_unit_pivot(M.a, M.rows, M.cols, 1, 1)

\* M.rank()
Rank(M) == RowReduce(M.a, M.rows, M.cols, 1, 1)

\* M.is_linearly_independent(colspace=True, verbosity=0): every column of M
\* is a pivot column
IsLinearlyIndependent(M) == Rank(M) = M.cols

----------------------------------------------------------------------------
(* basis_of, stage by stage *)

Say(f, v, lines) == IF f.verbosity >= v THEN lines ELSE <<>>

NewFrame(T, V, verbosity) ==
    [T |-> T, V |-> V, verbosity |-> verbosity, pc |-> "validate",
     dim_V |-> -1, num_vectors_T |-> -1, rank_combined |-> -1,
     trace |-> <<>>, outcome |-> "running"]

Raise(f, error) == [f EXCEPT !.pc = "done", !.outcome = error]

Return(f, value, lines) ==
    [f EXCEPT !.pc = "done", !.outcome = value, !.trace = f.trace \o lines]

\* Validate with the type of V tested before the default is substituted.
Validate_type_before_default(f) ==
    IF ~isinstance_Matrix(f.T) THEN Raise(f, "TypeError:T")
    ELSE IF ~isinstance_Matrix(f.V) THEN Raise(f, "TypeError:V")
    ELSE IF f.T.rows # f.V.rows THEN Raise(f, "ValueError")
    ELSE [f EXCEPT !.pc = "dimension", !.trace = Say(f, 1, <<"print:banner">>)]

\* Validate with the default space sized by the columns of T.
Validate_eye_cols(f) ==
    IF ~isinstance_Matrix(f.T) THEN Raise(f, "TypeError:T")
    ELSE LET V  == IF f.V = None THEN Eye(f.T.cols) ELSE f.V
             t1 == IF f.V = None THEN Say(f, 1, <<"print:default_V">>) ELSE <<>>
         IN  IF ~isinstance_Matrix(V) THEN Raise(f, "TypeError:V")
             ELSE IF f.T.rows # V.rows THEN Raise(f, "ValueError")
             ELSE [f EXCEPT !.V = V, !.pc = "dimension",
                            !.trace = t1 \o Say(f, 1, <<"print:banner">>)]

\* lines 15-36
Validate(f) ==
    IF ~isinstance_Matrix(f.T) THEN Raise(f, "TypeError:T")
    ELSE LET V  == IF f.V = None THEN Eye(f.T.rows) ELSE f.V
             t1 == IF f.V = None THEN Say(f, 1, <<"print:default_V">>) ELSE <<>>
         IN  IF ~isinstance_Matrix(V) THEN Raise(f, "TypeError:V")
             ELSE IF f.T.rows # V.rows THEN Raise(f, "ValueError")
             ELSE [f EXCEPT !.V = V, !.pc = "dimension",
                            !.trace = t1 \o Say(f, 1, <<"print:banner">>)]

\* DimensionCheck counting the rows of T instead of its columns.
DimensionCheck_rows(f) ==
    LET dim_V         == Rank(f.V)
        num_vectors_T == f.T.rows
        g  == [f EXCEPT !.dim_V = dim_V, !.num_vectors_T = num_vectors_T,
                        !.trace = f.trace \o <<"call:rank(V)">>
                                          \o Say(f, 1, <<"print:1.dimension_check">>)]
    IN  IF num_vectors_T # dim_V
        THEN Return(g, "False",
                    Say(f, 1, <<"print:fail_count", "print:result_not_basis",
                                "print:reason_count">>))
        ELSE [g EXCEPT !.pc = "independence",
                       !.trace = g.trace \o Say(f, 1, <<"print:pass_count">>)]

\* DimensionCheck with its return indented under the verbosity test.
DimensionCheck_return_when_verbose(f) ==
    LET dim_V         == Rank(f.V)
        num_vectors_T == f.T.cols
        g  == [f EXCEPT !.dim_V = dim_V, !.num_vectors_T = num_vectors_T,
                        !.trace = f.trace \o <<"call:rank(V)">>
                                          \o Say(f, 1, <<"print:1.dimension_check">>)]
    IN  IF num_vectors_T # dim_V /\ f.verbosity >= 1
        THEN Return(g, "False",
                    <<"print:fail_count", "print:result_not_basis",
                      "print:reason_count">>)
        ELSE [g EXCEPT !.pc = "independence",
                       !.trace = g.trace \o Say(f, 1, <<"print:pass_count">>)]

\* lines 38-59
DimensionCheck(f) ==
    LET dim_V         == Rank(f.V)
        num_vectors_T == f.T.cols
        g  == [f EXCEPT !.dim_V = dim_V, !.num_vectors_T = num_vectors_T,
                        !.trace = f.trace \o <<"call:rank(V)">>
                                          \o Say(f, 1, <<"print:1.dimension_check">>)]
    IN  IF num_vectors_T # dim_V
        THEN Return(g, "False",
                    Say(f, 1, <<"print:fail_count", "print:result_not_basis",
                                "print:reason_count">>))
        ELSE [g EXCEPT !.pc = "independence",
                       !.trace = g.trace \o Say(f, 1, <<"print:pass_count">>)]

\* IndependenceCheck that shows the RREF only when the check passes.
IndependenceCheck_rref_on_pass_only(f) ==
    LET is_independent == IsLinearlyIndependent(f.T)
        t0 == f.trace \o Say(f, 1, <<"print:2.independence_check">>)
                      \o <<"call:is_linearly_independent(T)">>
        g  == [f EXCEPT !.trace = t0]
    IN  IF ~is_independent
        THEN Return(g, "False",
                    Say(f, 1, <<"print:fail_dependent", "print:result_not_basis",
                                "print:reason_dependent">>))
        ELSE [g EXCEPT !.pc = "spanning",
                       !.trace = t0 \o Say(f, 1, <<"print:pass_independent">>)
                                    \o Say(f, 2, <<"call:rref(T)", "print:rref(T)">>)]

\* IndependenceCheck without the return of its failure branch.
IndependenceCheck_fall_through(f) ==
    LET is_independent == IsLinearlyIndependent(f.T)
        t0 == f.trace \o Say(f, 1, <<"print:2.independence_check">>)
                      \o <<"call:is_linearly_independent(T)">>
        g  == [f EXCEPT !.pc = "spanning"]
    IN  IF ~is_independent
        THEN [g EXCEPT !.trace = t0
                          \o Say(f, 1, <<"print:fail_dependent">>)
                          \o Say(f, 2, <<"call:rref(T)", "print:rref(T)">>)
                          \o Say(f, 1, <<"print:result_not_basis",
                                         "print:reason_dependent">>)]
        ELSE [g EXCEPT !.trace = t0 \o Say(f, 1, <<"print:pass_independent">>)
                                    \o Say(f, 2, <<"call:rref(T)", "print:rref(T)">>)]

\* lines 61-86
IndependenceCheck(f) ==
    LET is_independent == IsLinearlyIndependent(f.T)
        t0 == f.trace \o Say(f, 1, <<"print:2.independence_check">>)
                      \o <<"call:is_linearly_independent(T)">>
        g  == [f EXCEPT !.trace = t0]
    IN  IF ~is_independent
        THEN Return(g, "False",
                    Say(f, 1, <<"print:fail_dependent">>)
                    \o Say(f, 2, <<"call:rref(T)", "print:rref(T)">>)
                    \o Say(f, 1, <<"print:result_not_basis",
                                   "print:reason_dependent">>))
        ELSE [g EXCEPT !.pc = "spanning",
                       !.trace = t0 \o Say(f, 1, <<"print:pass_independent">>)
                                    \o Say(f, 2, <<"call:rref(T)", "print:rref(T)">>)]

\* SpanningCheck that fails only when the joint rank is below dim_V.
SpanningCheck_less_than(f) ==
    LET combined      == RowJoin(f.T, f.V)
        rank_combined == Rank(combined)
        g  == [f EXCEPT !.rank_combined = rank_combined,
                        !.trace = f.trace \o Say(f, 1, <<"print:3.spanning_check">>)
                                          \o <<"call:row_join(T,V)", "call:rank([T|V])">>
                                          \o Say(f, 2, <<"call:rank(T)", "print:ranks">>)]
    IN  IF rank_combined < f.dim_V
        THEN Return(g, "False",
                    Say(f, 1, <<"print:fail_span", "print:result_not_basis",
                                "print:reason_span">>))
        ELSE Return(g, "True",
                    Say(f, 1, <<"print:pass_span", "print:result_basis",
                                "print:proof_summary">>))

\* lines 88-124
SpanningCheck(f) ==
    LET combined      == RowJoin(f.T, f.V)
        rank_combined == Rank(combined)
        g  == [f EXCEPT !.rank_combined = rank_combined,
                        !.trace = f.trace \o Say(f, 1, <<"print:3.spanning_check">>)
                                          \o <<"call:row_join(T,V)", "call:rank([T|V])">>
                                          \o Say(f, 2, <<"call:rank(T)", "print:ranks">>)]
    IN  IF rank_combined # f.dim_V
        THEN Return(g, "False",
                    Say(f, 1, <<"print:fail_span", "print:result_not_basis",
                                "print:reason_span">>))
        ELSE Return(g, "True",
                    Say(f, 1, <<"print:pass_span", "print:result_basis",
                                "print:proof_summary">>))

Step(f) ==
    CASE f.pc = "validate"     -> Validate(f)
      [] f.pc = "dimension"    -> DimensionCheck(f)
      [] f.pc = "independence" -> IndependenceCheck(f)
      [] f.pc = "spanning"     -> SpanningCheck(f)
      [] OTHER                 -> f

RECURSIVE RunToEnd(_)
RunToEnd(f) == IF f.pc = "done" THEN f ELSE RunToEnd(Step(f))

\* basis_of reduced to the spanning test: no count, no independence test.
basis_of_spanning_only(T, V, verbosity) ==
    LET f == Validate(NewFrame(T, V, verbosity))
    IN  IF f.pc = "done" THEN f
        ELSE SpanningCheck([f EXCEPT !.pc = "spanning", !.dim_V = Rank(f.V),
                                     !.num_vectors_T = f.T.cols])

\* the whole call: the frame in which basis_of(T, V, verbosity) ends
basis_of(T, V, verbosity) == RunToEnd(NewFrame(T, V, verbosity))

----------------------------------------------------------------------------
(* The state machine: one call of basis_of on arbitrary arguments *)

Init ==
    /\ args \in [T : Matrices \cup {NotAMatrix},
                 V : Matrices \cup {None, NotAMatrix},
                 verbosity : Verbosities]
    /\ frame = NewFrame(args.T, args.V, args.verbosity)

DoValidate ==
    /\ frame.pc = "validate"
    /\ frame' = Validate(frame)
    /\ UNCHANGED args

DoDimensionCheck ==
    /\ frame.pc = "dimension"
    /\ frame' = DimensionCheck(frame)
    /\ UNCHANGED args

DoIndependenceCheck ==
    /\ frame.pc = "independence"
    /\ frame' = IndependenceCheck(frame)
    /\ UNCHANGED args

DoSpanningCheck ==
    /\ frame.pc = "spanning"
    /\ frame' = SpanningCheck(frame)
    /\ UNCHANGED args

Next ==
    \/ DoValidate
    \/ DoDimensionCheck
    \/ DoIndependenceCheck
    \/ DoSpanningCheck

Spec == Init /\ [][Next]_vars

TypeOK ==
    /\ frame.pc \in {"validate", "dimension", "independence", "spanning", "done"}
    /\ frame.outcome \in {"running", "True", "False", "TypeError:T",
                          "TypeError:V", "ValueError"}
    /\ (frame.pc = "done") = (frame.outcome # "running")

----------------------------------------------------------------------------
(* Linear algebra stated from the definitions, independently of row         *)
(* reduction: integer combinations of columns with bounded coefficients.    *)

RECURSIVE Dot(_, _, _)
Dot(u, k, n) == IF n = 0 THEN 0 ELSE Dot(u, k, n - 1) + u[n] * k[n]

\* the combination of M's columns with coefficients k
LinComb(M, k) == [i \in 1..M.rows |-> Dot(M.a[i], k, M.cols)]

Column(M, j) == [i \in 1..M.rows |-> M.a[i][j]]

\* Largest determinant of an n x n matrix of 0s and 1s (1, 1, 2, 3, 5 for
\* n = 1..5).  By Cramer's rule a dependence between columns of a 0/1 matrix,
\* or a representation of a 0/1 vector by them, has integer coefficients and
\* a common denominator no larger than this, n being the smaller dimension.
DetBound(M) ==
    LET n == IF M.rows < M.cols THEN M.rows ELSE M.cols
    IN  CASE n <= 2 -> 1
          [] n = 3  -> 2
          [] n = 4  -> 3
          [] OTHER  -> 5

CoefVectors(M) == [1..M.cols -> (0 - DetBound(M))..DetBound(M)]

ZeroVector(n) == [i \in 1..n |-> 0]

ColumnsIndependent(M) ==
    \A k \in CoefVectors(M) :
        LinComb(M, k) = ZeroVector(M.rows) => k = ZeroVector(M.cols)

InColumnSpace(w, M) ==
    \E d \in 1..DetBound(M) : \E k \in CoefVectors(M) :
        [i \in 1..M.rows |-> d * w[i]] = LinComb(M, k)

SpanWithin(A, B) == \A j \in 1..A.cols : InColumnSpace(Column(A, j), B)

IsBasisOfColumnSpace(T, V) ==
    /\ ColumnsIndependent(T)
    /\ SpanWithin(T, V)
    /\ SpanWithin(V, T)

----------------------------------------------------------------------------
(* Transformations of the candidate set *)

ColSwap(M, i, j) ==
    Matrix(M.rows, M.cols,
           [r \in 1..M.rows |->
              [c \in 1..M.cols |->
                 M.a[r][IF c = i THEN j ELSE IF c = j THEN i ELSE c]]])

ColScale(M, i, x) ==
    Matrix(M.rows, M.cols,
           [r \in 1..M.rows |->
              [c \in 1..M.cols |-> IF c = i THEN x * M.a[r][c] ELSE M.a[r][c]]])

AppendCol(M, w) ==
    RowJoin(M, Matrix(M.rows, 1, [r \in 1..M.rows |-> <<w[r]>>]))

Scalars == {-2, -1, 2, 3}

Coefficients == {-1, 0, 1, 2}

----------------------------------------------------------------------------
(* Reading a finished call *)

Done == frame.pc = "done"

Returned == frame.outcome \in {"True", "False"}

Failed == frame.outcome \in {"TypeError:T", "TypeError:V", "ValueError"}

Emitted(f, line) == \E n \in 1..Len(f.trace) : f.trace[n] = line

Count(f, lines) == Cardinality({n \in 1..Len(f.trace) : f.trace[n] \in lines})

\* the check at which a call that returned False stopped
FailingCheck(f) ==
    IF Emitted(f, "call:rank([T|V])") THEN "spanning"
    ELSE IF Emitted(f, "call:is_linearly_independent(T)") THEN "independence"
    ELSE "cardinality"

\* both arguments are Matrix objects of the same height
MatrixPair == /\ isinstance_Matrix(args.T)
              /\ isinstance_Matrix(args.V)
              /\ args.T.rows = args.V.rows

----------------------------------------------------------------------------
(* Claims *)

\* C1: for matrices T and V of the same height, basis_of(T, V) returns True
\* exactly when cols(T) = rank(V), rank(T) = cols(T) and rank([T|V]) = rank(V),
\* and returns False in every other case.
C1_ThreeRankConditions ==
    (Done /\ MatrixPair) =>
        /\ Returned
        /\ (frame.outcome = "True") <=>
              /\ args.T.cols = Rank(args.V)
              /\ Rank(args.T) = args.T.cols
              /\ Rank(RowJoin(args.T, args.V)) = Rank(args.V)

C1_Witness ==
    /\ Done /\ MatrixPair
    /\ frame.outcome = "True"
    /\ args.T.cols = 2
    /\ args.T # args.V

\* C2: for matrices T and V of the same height, basis_of(T, V) returns True
\* exactly when the columns of T are linearly independent and span the same
\* space as the columns of V.
C2_BasisOfColumnSpace ==
    (Done /\ MatrixPair) =>
        ((frame.outcome = "True") <=> IsBasisOfColumnSpace(args.T, args.V))

\* two independent vectors of R^3 with the right count that span another plane
C2_Witness ==
    /\ Done /\ MatrixPair
    /\ frame.outcome = "False"
    /\ FailingCheck(frame) = "spanning"
    /\ args.T.rows = 3

\* C3: basis_of(T) with V omitted returns what basis_of(T, I) returns, I the
\* identity matrix of size rows(T).
C3_DefaultIsIdentity ==
    (Done /\ isinstance_Matrix(args.T) /\ args.V = None) =>
        /\ Returned
        /\ frame.outcome =
              basis_of(args.T, Eye(args.T.rows), args.verbosity).outcome

C3_Witness ==
    /\ Done /\ args.V = None
    /\ frame.outcome = "True"
    /\ args.T # Eye(args.T.rows)

\* C4: two calls that differ only in verbosity end in the same outcome, the
\* returned boolean or the error raised.
C4_VerbosityBlind ==
    Done => \A v \in Verbosities :
                basis_of(args.T, args.V, v).outcome = frame.outcome

C4_Witness ==
    /\ Done
    /\ args.verbosity = 2
    /\ frame.outcome = "False"
    /\ FailingCheck(frame) = "cardinality"

\* C5: the arguments are validated before anything is computed or printed:
\* TypeError when T is not a Matrix, else TypeError when a supplied V is not a
\* Matrix, else ValueError when the heights differ; a failed call returns no
\* boolean and has done nothing else, and a call with valid arguments always
\* returns a boolean.
C5_ValidationFirst ==
    LET badT  == ~isinstance_Matrix(args.T)
        badV  == ~badT /\ args.V # None /\ ~isinstance_Matrix(args.V)
        badHt == ~badT /\ isinstance_Matrix(args.V) /\ args.T.rows # args.V.rows
        valid == ~badT /\ ~badV /\ ~badHt
    IN  /\ frame.pc = "validate" => frame.trace = <<>>
        /\ frame.pc \in {"dimension", "independence", "spanning"} => valid
        /\ Done =>
              /\ badT  => frame.outcome = "TypeError:T"
              /\ badV  => frame.outcome = "TypeError:V"
              /\ badHt => frame.outcome = "ValueError"
              /\ valid => Returned
              /\ Failed => frame.trace = <<>>

C5_Witness ==
    /\ Done
    /\ frame.outcome = "ValueError"
    /\ args.verbosity = 2

\* C6: swapping two columns of T never changes what basis_of returns.
C6_ColumnSwap ==
    (Done /\ Returned) =>
        \A i, j \in 1..args.T.cols :
            basis_of(ColSwap(args.T, i, j), args.V, args.verbosity).outcome
                = frame.outcome

C6_Witness ==
    /\ Done /\ MatrixPair
    /\ frame.outcome = "True"
    /\ args.T.cols = 2
    /\ ColSwap(args.T, 1, 2) # args.T

\* C7: multiplying a column of T by a nonzero scalar never changes what
\* basis_of returns.
C7_ColumnScale ==
    (Done /\ Returned) =>
        \A i \in 1..args.T.cols : \A x \in Scalars :
            basis_of(ColScale(args.T, i, x), args.V, args.verbosity).outcome
                = frame.outcome

C7_Witness ==
    /\ Done /\ MatrixPair
    /\ frame.outcome = "True"
    /\ args.T.cols = 2
    /\ args.T.rows = 3

\* C8: when basis_of(T, V) is True and w is a linear combination of the
\* columns of T, basis_of([T | w], V) is False and the check that fails is
\* the cardinality check or the independence check, never the spanning check.
C8_AppendDependentColumn ==
    (Done /\ frame.outcome = "True") =>
        \A k \in [1..args.T.cols -> Coefficients] :
            LET g == basis_of(AppendCol(args.T, LinComb(args.T, k)), args.V,
                              args.verbosity)
            IN  /\ g.outcome = "False"
                /\ FailingCheck(g) \in {"cardinality", "independence"}

C8_Witness ==
    /\ Done /\ MatrixPair
    /\ frame.outcome = "True"
    /\ args.T.cols = 2
    /\ args.V.cols = 3

DetailLines == {"call:rref(T)", "print:rref(T)", "call:rank(T)", "print:ranks"}

NotDetail(line) == line \notin DetailLines

\* C9 as stated: with verbosity >= 2 every call on valid arguments emits the
\* RREF of T, on top of the verbosity 1 output, whichever check fails.
C9_Original ==
    (Done /\ Returned /\ args.verbosity >= 2) =>
        /\ Emitted(frame, "print:rref(T)")
        /\ SelectSeq(frame.trace, NotDetail)
              = basis_of(args.T, args.V, 1).trace

\* C9 amended: with verbosity >= 2 a call on valid arguments emits the RREF
\* of T exactly when the cardinality check passes (cols(T) = rank(V)),
\* whether the independence check then passes or fails; everything emitted
\* at verbosity 1 is still emitted, in the same order.
C9_RrefOnceCountIsRight ==
    (Done /\ Returned /\ args.verbosity >= 2) =>
        /\ Emitted(frame, "print:rref(T)") <=> (frame.T.cols = Rank(frame.V))
        /\ SelectSeq(frame.trace, NotDetail)
              = basis_of(args.T, args.V, 1).trace

C9_Witness ==
    /\ Done /\ Returned
    /\ args.verbosity >= 2
    /\ FailingCheck(frame) = "independence"
    /\ Emitted(frame, "print:rref(T)")

CheckOrder ==
    <<"call:rank(V)", "call:is_linearly_independent(T)",
      "call:row_join(T,V)", "call:rank([T|V])">>

IsCheckCall(line) == \E n \in 1..Len(CheckOrder) : CheckOrder[n] = line

IsPrefix(s, t) == Len(s) <= Len(t) /\ SubSeq(t, 1, Len(s)) = s

ReasonLines == {"print:reason_count", "print:reason_dependent", "print:reason_span"}

\* C10: the checks run in the order cardinality, independence, spanning and
\* the call stops at the first that fails: a wrong count runs neither the
\* independence test nor the join and its rank, a dependent T runs no join;
\* with verbosity >= 1 a False result prints exactly one Reason line, that of
\* the first failing check, and the Proof Summary is printed exactly when
\* the result is True.
C10_OrderAndShortCircuit ==
    /\ IsPrefix(SelectSeq(frame.trace, IsCheckCall), CheckOrder)
    /\ (Done /\ Returned) =>
          LET count == frame.T.cols = Rank(frame.V)
              indep == Rank(frame.T) = frame.T.cols
              first == IF ~count THEN "print:reason_count"
                       ELSE IF ~indep THEN "print:reason_dependent"
                       ELSE "print:reason_span"
          IN  /\ ~count =>
                    /\ frame.outcome = "False"
                    /\ SelectSeq(frame.trace, IsCheckCall) = SubSeq(CheckOrder, 1, 1)
              /\ (count /\ ~indep) =>
                    /\ frame.outcome = "False"
                    /\ SelectSeq(frame.trace, IsCheckCall) = SubSeq(CheckOrder, 1, 2)
              /\ (count /\ indep) =>
                    SelectSeq(frame.trace, IsCheckCall) = CheckOrder
              /\ args.verbosity >= 1 =>
                    /\ frame.outcome = "False" =>
                          /\ Count(frame, ReasonLines) = 1
                          /\ Emitted(frame, first)
                    /\ frame.outcome = "True" => Count(frame, ReasonLines) = 0
                    /\ Emitted(frame, "print:proof_summary")
                          <=> (frame.outcome = "True")

C10_Witness ==
    /\ Done
    /\ args.verbosity = 1
    /\ frame.outcome = "False"
    /\ FailingCheck(frame) = "independence"
    /\ Emitted(frame, "print:reason_dependent")

=============================================================================
